---------------------------- MODULE Spec2Model ----------------------------
(***************************************************************************)
(* A model of nth/cobs.h: Consistent Overhead Byte Stuffing.               *)
(*                                                                         *)
(*   cobs_encode (callable / buffer)   bulk encoders                       *)
(*   cobs_decode (callable / buffer)   bulk decoders                       *)
(*   cobs_encoder_t                    streaming encoder                   *)
(*   cobs_decoder_t                    streaming decoder                   *)
(*                                                                         *)
(* Bytes are the integers 0..255 and uint8_t arithmetic is taken modulo    *)
(* 256.  A pointer into a span is the offset from the span's data(), so    *)
(* the byte at offset k of a span s is s[k + 1].                           *)
(***************************************************************************)
EXTENDS Integers, Sequences, FiniteSets, TLC

VARIABLES
    payload,    \* the bytes handed to an encoder
    codes,      \* the block codes a hand-built wire was made from (<<>> otherwise)
    wire,       \* the bytes handed to a decoder
    pc,         \* where the caller is in its use of the library
    encoded,    \* what the last bulk cobs_encode call did
    decoded,    \* what the last bulk cobs_decode call did
    encoder,    \* a cobs_encoder_t and what its callback has received
    enc_pos,    \* number of payload bytes given to encoder.sink() so far
    decoder,    \* a cobs_decoder_t and what its callback has received
    dec_pos,    \* number of wire bytes given to decoder.sink() so far
    enc_twin,   \* a cobs_encoder_t constructed when the encoder's frame began
    dec_twin,   \* a cobs_decoder_t constructed when the decoder's frame began
    steps       \* number of calls made in a session on one streaming object

vars == <<payload, codes, wire, pc, encoded, decoded, encoder, enc_pos, decoder, dec_pos,
          enc_twin, dec_twin, steps>>

-----------------------------------------------------------------------------
(* Bounds of the model.                                                    *)

\* Longest payload of which every byte combination is tried.
MaxLen == 3
\* Largest number of blocks of a hand-built wire.
MaxBlocks == 2
\* Largest span given to one streaming sink() call.
MaxChunk == 2
\* Largest number of calls in a session on one streaming object.
MaxSteps == 4

-----------------------------------------------------------------------------
(* Machine arithmetic and memory.                                          *)

\* uint8_t arithmetic.
U8(n) == n % 256

\* unsigned (32 bit) arithmetic, as in `code - size - 1u`.  TLC's integers end
\* at 2^31 - 1, so a 32-bit pattern is named by its two's-complement reading:
\* a result from 0 to 2^31 - 1 is itself, and a negative n names the wrapped
\* value 2^32 + n.  The operands here are bytes, so n is within -256..255.
U32(n) == IF n >= 0 THEN n % 2147483647 ELSE -((-n) % 2147483647)

Min(a, b) == IF a < b THEN a ELSE b

\* The content of a caller's output buffer before the call: a value no
\* byte has, so that a byte the call did not write stays recognisable.
Unwritten == 255 + 1

\* A fresh output span of the given size.
Buffer(cap) == [i \in 1..cap |-> Unwritten]

\* *p = v for the pointer at offset `at` of the span `out`.
Store(out, at, v) == [out EXCEPT ![at + 1] = v]

\* The bytes a callback sees behind (pointer, size): size bytes from offset 0
\* of the 0-based array `buf`.
View(buf, size) == [i \in 1..size |-> buf[i - 1]]

\* All chunks of a callback trace, in order, as one byte sequence.
RECURSIVE Flatten(_)
Flatten(chunks) ==
    IF chunks = <<>> THEN <<>>
    ELSE IF Len(chunks) = 1 THEN chunks[1]
    ELSE LET h == Len(chunks) \div 2
         IN Flatten(SubSeq(chunks, 1, h)) \o Flatten(SubSeq(chunks, h + 1, Len(chunks)))

-----------------------------------------------------------------------------
(* cobs_encode with an output callable (cobs.h, lines 132-162).            *)

\* write_chunk handing over code and data in one invocation.
write_chunk_single_call(in, s, p) ==
    LET chunk_size == p - s.chunk
    IN [s EXCEPT !.calls = Append(s.calls, <<s.code>> \o SubSeq(in, s.chunk + 1, p)),
                 !.total = s.total + 1 + chunk_size]

\* The lambda write_chunk: two callback invocations, the code and the data.
write_chunk(in, s, p) ==
    LET chunk_size == p - s.chunk
    IN [s EXCEPT !.calls = s.calls \o << <<s.code>>, SubSeq(in, s.chunk + 1, p) >>,
                 !.total = s.total + 1 + chunk_size]

\* encode_cb_iter with `chunk = src_dat` after a zero, so that the zero starts
\* the next chunk.
encode_cb_iter_keeps_zero(in, s) ==
    IF ~(s.src_dat < Len(in)) THEN s
    ELSE
    LET s1 == IF s.code = 255
              THEN [write_chunk(in, s, s.src_dat) EXCEPT !.chunk = s.src_dat, !.code = 1]
              ELSE s
        s2 == IF in[s1.src_dat + 1] = 0
              THEN [write_chunk(in, s1, s1.src_dat) EXCEPT !.chunk = s1.src_dat, !.code = 2]
              ELSE [s1 EXCEPT !.code = U8(s1.code + 1)]
    IN [s2 EXCEPT !.src_dat = s2.src_dat + 1]

\* One iteration of the for loop over src_dat.
encode_cb_iter(in, s) ==
    IF ~(s.src_dat < Len(in)) THEN s
    ELSE
    LET s1 == IF s.code = 255
              THEN [write_chunk(in, s, s.src_dat) EXCEPT !.chunk = s.src_dat, !.code = 1]
              ELSE s
        s2 == IF in[s1.src_dat + 1] = 0
              THEN [write_chunk(in, s1, s1.src_dat) EXCEPT !.chunk = s1.src_dat + 1, !.code = 1]
              ELSE [s1 EXCEPT !.code = U8(s1.code + 1)]
    IN [s2 EXCEPT !.src_dat = s2.src_dat + 1]

\* n iterations of the loop.  The test of m makes TLC compute the first half
\* before it descends into the second.
RECURSIVE encode_cb_loop(_, _, _)
encode_cb_loop(in, s, n) ==
    IF n = 0 THEN s
    ELSE IF n = 1 THEN encode_cb_iter(in, s)
    ELSE LET h == n \div 2
             m == encode_cb_loop(in, s, h)
         IN IF m.src_dat >= 0 THEN encode_cb_loop(in, m, n - h) ELSE m

cobs_encode_cb(in) ==
    LET s0 == [src_dat |-> 0, chunk |-> 0, code |-> 1, total |-> 0, calls |-> <<>>]
        s == encode_cb_loop(in, s0, Len(in))
        f == write_chunk(in, s, Len(in))
    IN [fn |-> "cb", cap |-> 0, ret |-> f.total, calls |-> f.calls, out |-> <<>>]

-----------------------------------------------------------------------------
(* cobs_encode into an output buffer (cobs.h, lines 177-210).              *)

\* encode_buf_iter counting a data byte as required only when it was stored.
encode_buf_iter_counts_stored(in, cap, s) ==
    IF ~(s.src < Len(in)) THEN s
    ELSE
    LET b == in[s.src + 1]
        s1 == [s EXCEPT !.src = s.src + 1]
        s2 == IF b # 0
              THEN [s1 EXCEPT
                      !.out = IF s1.dst_dat < cap THEN Store(s1.out, s1.dst_dat, b) ELSE s1.out,
                      !.dst_dat = IF s1.dst_dat < cap THEN s1.dst_dat + 1 ELSE s1.dst_dat,
                      !.code = U8(s1.code + 1),
                      !.required = IF s1.dst_dat < cap THEN s1.required + 1 ELSE s1.required]
              ELSE s1
    IN IF s2.code = 255 \/ b = 0
       THEN LET t1 == [s2 EXCEPT
                         !.out = IF s2.dst_len < cap THEN Store(s2.out, s2.dst_len, s2.code)
                                 ELSE s2.out,
                         !.dst_len = s2.dst_dat,
                         !.code = 1]
            IN IF b = 0 \/ t1.src < Len(in)
               THEN [t1 EXCEPT
                       !.dst_dat = IF t1.dst_dat < cap THEN t1.dst_dat + 1 ELSE t1.dst_dat,
                       !.required = t1.required + 1]
               ELSE t1
       ELSE s2

\* encode_buf_iter reserving the next code byte after every full block, also
\* when the input ends there (the test `src < end` left out).
encode_buf_iter_always_reserves(in, cap, s) ==
    IF ~(s.src < Len(in)) THEN s
    ELSE
    LET b == in[s.src + 1]
        s1 == [s EXCEPT !.src = s.src + 1]
        s2 == IF b # 0
              THEN [s1 EXCEPT
                      !.out = IF s1.dst_dat < cap THEN Store(s1.out, s1.dst_dat, b) ELSE s1.out,
                      !.dst_dat = IF s1.dst_dat < cap THEN s1.dst_dat + 1 ELSE s1.dst_dat,
                      !.code = U8(s1.code + 1),
                      !.required = s1.required + 1]
              ELSE s1
    IN IF s2.code = 255 \/ b = 0
       THEN LET t1 == [s2 EXCEPT
                         !.out = IF s2.dst_len < cap THEN Store(s2.out, s2.dst_len, s2.code)
                                 ELSE s2.out,
                         !.dst_len = s2.dst_dat,
                         !.code = 1]
            IN [t1 EXCEPT
                  !.dst_dat = IF t1.dst_dat < cap THEN t1.dst_dat + 1 ELSE t1.dst_dat,
                  !.required = t1.required + 1]
       ELSE s2

\* encode_buf_iter storing a block's code only when the block's data all
\* fitted (`dst_dat < dst_end` for the test of dst_len).
encode_buf_iter_drops_late_code(in, cap, s) ==
    IF ~(s.src < Len(in)) THEN s
    ELSE
    LET b == in[s.src + 1]
        s1 == [s EXCEPT !.src = s.src + 1]
        s2 == IF b # 0
              THEN [s1 EXCEPT
                      !.out = IF s1.dst_dat < cap THEN Store(s1.out, s1.dst_dat, b) ELSE s1.out,
                      !.dst_dat = IF s1.dst_dat < cap THEN s1.dst_dat + 1 ELSE s1.dst_dat,
                      !.code = U8(s1.code + 1),
                      !.required = s1.required + 1]
              ELSE s1
    IN IF s2.code = 255 \/ b = 0
       THEN LET t1 == [s2 EXCEPT
                         !.out = IF s2.dst_dat < cap THEN Store(s2.out, s2.dst_len, s2.code)
                                 ELSE s2.out,
                         !.dst_len = s2.dst_dat,
                         !.code = 1]
            IN IF b = 0 \/ t1.src < Len(in)
               THEN [t1 EXCEPT
                       !.dst_dat = IF t1.dst_dat < cap THEN t1.dst_dat + 1 ELSE t1.dst_dat,
                       !.required = t1.required + 1]
               ELSE t1
       ELSE s2

\* One iteration of the while loop; dst_end is the offset cap.
encode_buf_iter(in, cap, s) ==
    IF ~(s.src < Len(in)) THEN s
    ELSE
    LET b == in[s.src + 1]
        s1 == [s EXCEPT !.src = s.src + 1]
        s2 == IF b # 0
              THEN [s1 EXCEPT
                      !.out = IF s1.dst_dat < cap THEN Store(s1.out, s1.dst_dat, b) ELSE s1.out,
                      !.dst_dat = IF s1.dst_dat < cap THEN s1.dst_dat + 1 ELSE s1.dst_dat,
                      !.code = U8(s1.code + 1),
                      !.required = s1.required + 1]
              ELSE s1
    IN IF s2.code = 255 \/ b = 0
       THEN LET t1 == [s2 EXCEPT
                         !.out = IF s2.dst_len < cap THEN Store(s2.out, s2.dst_len, s2.code)
                                 ELSE s2.out,
                         !.dst_len = s2.dst_dat,
                         !.code = 1]
            IN IF b = 0 \/ t1.src < Len(in)
               THEN [t1 EXCEPT
                       !.dst_dat = IF t1.dst_dat < cap THEN t1.dst_dat + 1 ELSE t1.dst_dat,
                       !.required = t1.required + 1]
               ELSE t1
       ELSE s2

RECURSIVE encode_buf_loop(_, _, _, _)
encode_buf_loop(in, cap, s, n) ==
    IF n = 0 THEN s
    ELSE IF n = 1 THEN encode_buf_iter(in, cap, s)
    ELSE LET h == n \div 2
             m == encode_buf_loop(in, cap, s, h)
         IN IF m.src >= 0 THEN encode_buf_loop(in, cap, m, n - h) ELSE m

cobs_encode_buf(in, cap) ==
    LET s0 == [src |-> 0, dst_len |-> 0, dst_dat |-> 1, code |-> 1, required |-> 1,
               out |-> Buffer(cap)]
        s == encode_buf_loop(in, cap, s0, Len(in))
        out == IF s.dst_len < cap THEN Store(s.out, s.dst_len, s.code) ELSE s.out
    IN [fn |-> "buf", cap |-> cap, ret |-> s.required, calls |-> <<>>, out |-> out]

-----------------------------------------------------------------------------
(* cobs_decode with an output callable (cobs.h, lines 315-353).            *)

\* One invocation of a decoder callback: cb(data, size, left).  `null` says
\* that the pointer was nullptr; data holds the size bytes behind it.
Call(data, left) == [data |-> data, size |-> Len(data), left |-> left, null |-> FALSE]
NullCall(left) == [data |-> <<>>, size |-> 0, left |-> left, null |-> TRUE]

\* decode_cb_iter without the test `code != 0xff`: a zero before every
\* block but the first.
decode_cb_iter_zero_after_full(in, s) ==
    IF ~(s.src < Len(in)) \/ s.brk THEN s
    ELSE IF s.block # 0
    THEN LET avail == Len(in) - s.src
             chunk == Min(s.block, avail)
             s1 == IF chunk # 0
                   THEN [s EXCEPT
                           !.calls = Append(s.calls, Call(SubSeq(in, s.src + 1, s.src + chunk), 0)),
                           !.block = U8(s.block - chunk),
                           !.total = s.total + chunk,
                           !.src = s.src + chunk]
                   ELSE s
         IN IF s1.block # 0 THEN [s1 EXCEPT !.block = U8(s1.block - 1)] ELSE s1
    ELSE LET block == in[s.src + 1]
             s1 == [s EXCEPT !.block = block, !.src = s.src + 1]
             s2 == IF block # 0 /\ s1.src # 1
                   THEN [s1 EXCEPT !.calls = Append(s1.calls, Call(<<0>>, 0)),
                                   !.total = s1.total + 1]
                   ELSE s1
             s3 == [s2 EXCEPT !.code = block]
         IN IF s3.code = 0 THEN [s3 EXCEPT !.brk = TRUE]
            ELSE IF s3.block # 0 THEN [s3 EXCEPT !.block = U8(s3.block - 1)]
            ELSE s3

\* One iteration of the while loop; brk records the break at line 343.
decode_cb_iter(in, s) ==
    IF ~(s.src < Len(in)) \/ s.brk THEN s
    ELSE IF s.block # 0
    THEN LET avail == Len(in) - s.src
             chunk == Min(s.block, avail)
             s1 == IF chunk # 0
                   THEN [s EXCEPT
                           !.calls = Append(s.calls, Call(SubSeq(in, s.src + 1, s.src + chunk), 0)),
                           !.block = U8(s.block - chunk),
                           !.total = s.total + chunk,
                           !.src = s.src + chunk]
                   ELSE s
         IN IF s1.block # 0 THEN [s1 EXCEPT !.block = U8(s1.block - 1)] ELSE s1
    ELSE LET block == in[s.src + 1]
             s1 == [s EXCEPT !.block = block, !.src = s.src + 1]
             s2 == IF block # 0 /\ s1.code # 255
                   THEN [s1 EXCEPT !.calls = Append(s1.calls, Call(<<0>>, 0)),
                                   !.total = s1.total + 1]
                   ELSE s1
             s3 == [s2 EXCEPT !.code = block]
         IN IF s3.code = 0 THEN [s3 EXCEPT !.brk = TRUE]
            ELSE IF s3.block # 0 THEN [s3 EXCEPT !.block = U8(s3.block - 1)]
            ELSE s3

RECURSIVE decode_cb_loop(_, _, _)
decode_cb_loop(in, s, n) ==
    IF n = 0 THEN s
    ELSE IF n = 1 THEN decode_cb_iter(in, s)
    ELSE LET h == n \div 2
             m == decode_cb_loop(in, s, h)
         IN IF m.src >= 0 THEN decode_cb_loop(in, m, n - h) ELSE m

\* Every iteration that does not break consumes at least one byte of in, so
\* Len(in) iterations run the loop to its end.
cobs_decode_cb(in) ==
    LET s0 == [src |-> 0, code |-> 255, block |-> 0, total |-> 0, calls |-> <<>>,
               brk |-> FALSE]
        s == decode_cb_loop(in, s0, Len(in))
    IN IF s.block # 0
       THEN [fn |-> "cb", in |-> in, cap |-> 0, ret |-> 0,
             calls |-> Append(s.calls, NullCall(s.block)), out |-> <<>>]
       ELSE [fn |-> "cb", in |-> in, cap |-> 0, ret |-> s.total,
             calls |-> s.calls, out |-> <<>>]

-----------------------------------------------------------------------------
(* cobs_decode into an output buffer (cobs.h, lines 366-396).              *)

\* decode_buf_iter without the test `code != 0xff`: a zero before every
\* block but the first.
decode_buf_iter_zero_after_full(in, cap, s) ==
    IF ~(s.src < Len(in)) \/ s.brk THEN s
    ELSE IF s.block # 0
    THEN [s EXCEPT
            !.out = IF s.dst < cap THEN Store(s.out, s.dst, in[s.src + 1]) ELSE s.out,
            !.dst = IF s.dst < cap THEN s.dst + 1 ELSE s.dst,
            !.required = s.required + 1,
            !.src = s.src + 1,
            !.block = U8(s.block - 1)]
    ELSE LET block == in[s.src + 1]
             s1 == [s EXCEPT !.block = block, !.src = s.src + 1]
             s2 == IF block # 0 /\ s1.src # 1
                   THEN [s1 EXCEPT
                           !.out = IF s1.dst < cap THEN Store(s1.out, s1.dst, 0) ELSE s1.out,
                           !.dst = IF s1.dst < cap THEN s1.dst + 1 ELSE s1.dst,
                           !.required = s1.required + 1]
                   ELSE s1
             s3 == [s2 EXCEPT !.code = block]
         IN IF s3.code = 0 THEN [s3 EXCEPT !.brk = TRUE]
            ELSE [s3 EXCEPT !.block = U8(s3.block - 1)]

\* decode_buf_iter without the break on a zero code: the loop goes on past
\* the delimiter.
decode_buf_iter_no_break(in, cap, s) ==
    IF ~(s.src < Len(in)) \/ s.brk THEN s
    ELSE IF s.block # 0
    THEN [s EXCEPT
            !.out = IF s.dst < cap THEN Store(s.out, s.dst, in[s.src + 1]) ELSE s.out,
            !.dst = IF s.dst < cap THEN s.dst + 1 ELSE s.dst,
            !.required = s.required + 1,
            !.src = s.src + 1,
            !.block = U8(s.block - 1)]
    ELSE LET block == in[s.src + 1]
             s1 == [s EXCEPT !.block = block, !.src = s.src + 1]
             s2 == IF block # 0 /\ s1.code # 255
                   THEN [s1 EXCEPT
                           !.out = IF s1.dst < cap THEN Store(s1.out, s1.dst, 0) ELSE s1.out,
                           !.dst = IF s1.dst < cap THEN s1.dst + 1 ELSE s1.dst,
                           !.required = s1.required + 1]
                   ELSE s1
             s3 == [s2 EXCEPT !.code = block]
         IN [s3 EXCEPT !.block = U8(s3.block - 1)]

decode_buf_iter(in, cap, s) ==
    IF ~(s.src < Len(in)) \/ s.brk THEN s
    ELSE IF s.block # 0
    THEN [s EXCEPT
            !.out = IF s.dst < cap THEN Store(s.out, s.dst, in[s.src + 1]) ELSE s.out,
            !.dst = IF s.dst < cap THEN s.dst + 1 ELSE s.dst,
            !.required = s.required + 1,
            !.src = s.src + 1,
            !.block = U8(s.block - 1)]
    ELSE LET block == in[s.src + 1]
             s1 == [s EXCEPT !.block = block, !.src = s.src + 1]
             s2 == IF block # 0 /\ s1.code # 255
                   THEN [s1 EXCEPT
                           !.out = IF s1.dst < cap THEN Store(s1.out, s1.dst, 0) ELSE s1.out,
                           !.dst = IF s1.dst < cap THEN s1.dst + 1 ELSE s1.dst,
                           !.required = s1.required + 1]
                   ELSE s1
             s3 == [s2 EXCEPT !.code = block]
         IN IF s3.code = 0 THEN [s3 EXCEPT !.brk = TRUE]
            ELSE [s3 EXCEPT !.block = U8(s3.block - 1)]

RECURSIVE decode_buf_loop(_, _, _, _)
decode_buf_loop(in, cap, s, n) ==
    IF n = 0 THEN s
    ELSE IF n = 1 THEN decode_buf_iter(in, cap, s)
    ELSE LET h == n \div 2
             m == decode_buf_loop(in, cap, s, h)
         IN IF m.src >= 0 THEN decode_buf_loop(in, cap, m, n - h) ELSE m

\* cobs_decode_buf returning the size decoded so far for a malformed input
\* too (`return required`).
cobs_decode_buf_returns_partial(in, cap) ==
    LET s0 == [src |-> 0, dst |-> 0, code |-> 255, block |-> 0, required |-> 0,
               out |-> Buffer(cap), brk |-> FALSE]
        s == decode_buf_loop(in, cap, s0, Len(in))
    IN [fn |-> "buf", in |-> in, cap |-> cap, ret |-> s.required,
        calls |-> <<>>, out |-> s.out]

cobs_decode_buf(in, cap) ==
    LET s0 == [src |-> 0, dst |-> 0, code |-> 255, block |-> 0, required |-> 0,
               out |-> Buffer(cap), brk |-> FALSE]
        s == decode_buf_loop(in, cap, s0, Len(in))
    IN [fn |-> "buf", in |-> in, cap |-> cap,
        ret |-> IF s.block # 0 THEN 0 ELSE s.required,
        calls |-> <<>>, out |-> s.out]

-----------------------------------------------------------------------------
(* cobs_encoder_t (cobs.h, lines 53-118).  buf is the 256-byte array,      *)
(* calls what the callback has been given: each chunk is the bytes behind  *)
(* (pointer, size) at the time of the invocation.  oob records a store     *)
(* outside the array, wrap an increment of a uint8_t that holds 255.       *)

encoder_new == [buf |-> [i \in 0..255 |-> 0], calls |-> <<>>, oob |-> FALSE, wrap |-> FALSE]

\* buf[at] = v on the array of a streaming object with `n` elements
ArrayStore(o, n, at, v) ==
    IF at < n THEN [o EXCEPT !.buf[at] = v] ELSE [o EXCEPT !.oob = TRUE]

encoder_reset(e) == [e EXCEPT !.buf[0] = 0]

\* std::invoke(cb, buf, ++buf[0]); reset();
encoder_flush(e) ==
    LET e1 == [e EXCEPT !.buf[0] = U8(e.buf[0] + 1), !.wrap = e.wrap \/ e.buf[0] = 255]
        e2 == [e1 EXCEPT !.calls = Append(e1.calls, View(e1.buf, e1.buf[0]))]
    IN encoder_reset(e2)

\* buf[1 + buf[0]++] = b;
encoder_push(e, b) ==
    LET at == 1 + e.buf[0]
        e1 == [e EXCEPT !.buf[0] = U8(e.buf[0] + 1), !.wrap = e.wrap \/ e.buf[0] = 255]
    IN ArrayStore(e1, 256, at, b)

\* encoder_step flushing one byte late (`buf[0] == 0xff`).
encoder_step_flushes_late(e, b) ==
    LET e1 == IF e.buf[0] = 255 THEN encoder_flush(e) ELSE e
    IN IF b = 0 THEN encoder_flush(e1) ELSE encoder_push(e1, b)

encoder_step(e, b) ==
    LET e1 == IF e.buf[0] = 254 THEN encoder_flush(e) ELSE e
    IN IF b = 0 THEN encoder_flush(e1) ELSE encoder_push(e1, b)

\* for (auto b : in) step(b, wr): the first half of the span, then the rest.
RECURSIVE encoder_sink(_, _)
encoder_sink(e, in) ==
    IF in = <<>> THEN e
    ELSE IF Len(in) = 1 THEN encoder_step(e, in[1])
    ELSE LET h == Len(in) \div 2
             e1 == encoder_sink(e, SubSeq(in, 1, h))
         IN IF e1.oob \in BOOLEAN THEN encoder_sink(e1, SubSeq(in, h + 1, Len(in))) ELSE e1

\* encoder_stop without the reset() at its end.
encoder_stop_no_reset(e) ==
    LET e1 == encoder_push(e, 0)
    IN [e1 EXCEPT !.calls = Append(e1.calls, View(e1.buf, e1.buf[0] + 1))]

\* buf[1 + buf[0]++] = 0; std::invoke(cb, buf, buf[0] + 1); reset();
encoder_stop(e) ==
    LET e1 == encoder_push(e, 0)
        e2 == [e1 EXCEPT !.calls = Append(e1.calls, View(e1.buf, e1.buf[0] + 1))]
    IN encoder_reset(e2)

-----------------------------------------------------------------------------
(* cobs_decoder_t (cobs.h, lines 235-301).                                 *)

decoder_new == [size |-> 0, code |-> 0, buf |-> [i \in 0..254 |-> 0], calls |-> <<>>,
                oob |-> FALSE, wrap |-> FALSE]

\* decoder_reset clearing the code only.
decoder_reset_keeps_size(d) == [d EXCEPT !.code = 0]

decoder_reset(d) == [d EXCEPT !.size = 0, !.code = 0]

\* decoder_stop with `code - size` for the leftover count.
decoder_stop_off_by_one(d) ==
    LET left == IF d.code # 0 THEN U32(d.code - d.size) ELSE 0
        d1 == [d EXCEPT !.calls = Append(d.calls, Call(View(d.buf, d.size), left))]
    IN decoder_reset(d1)

\* std::invoke(cb, buf, size, code ? code - size - 1u : 0u); reset();
decoder_stop(d) ==
    LET left == IF d.code # 0 THEN U32(d.code - d.size - 1) ELSE 0
        d1 == [d EXCEPT !.calls = Append(d.calls, Call(View(d.buf, d.size), left))]
    IN decoder_reset(d1)

\* buf[size++] = b;
decoder_push(d, b) ==
    LET at == d.size
        d1 == [d EXCEPT !.size = U8(d.size + 1), !.wrap = d.wrap \/ d.size = 255]
    IN ArrayStore(d1, 255, at, b)

\* decoder_step without the test `code != 0xff`: an implied zero after every
\* block.
decoder_step_zero_after_full(d, b) ==
    IF b = 0 THEN decoder_stop(d)
    ELSE IF d.code = 0 \/ d.size + 1 = d.code
    THEN LET d1 == IF d.code # 0 THEN decoder_push(d, 0) ELSE d
             d2 == [d1 EXCEPT !.calls = Append(d1.calls, Call(View(d1.buf, d1.size), 0))]
         IN [d2 EXCEPT !.size = 0, !.code = b]
    ELSE decoder_push(d, b)

\* decoder_step taking a block for complete one byte late (`size == code`).
decoder_step_block_ends_late(d, b) ==
    IF b = 0 THEN decoder_stop(d)
    ELSE IF d.code = 0 \/ d.size = d.code
    THEN LET d1 == IF d.code # 0 /\ d.code # 255 THEN decoder_push(d, 0) ELSE d
             d2 == [d1 EXCEPT !.calls = Append(d1.calls, Call(View(d1.buf, d1.size), 0))]
         IN [d2 EXCEPT !.size = 0, !.code = b]
    ELSE decoder_push(d, b)

decoder_step(d, b) ==
    IF b = 0 THEN decoder_stop(d)
    ELSE IF d.code = 0 \/ d.size + 1 = d.code
    THEN LET d1 == IF d.code # 0 /\ d.code # 255 THEN decoder_push(d, 0) ELSE d
             d2 == [d1 EXCEPT !.calls = Append(d1.calls, Call(View(d1.buf, d1.size), 0))]
         IN [d2 EXCEPT !.size = 0, !.code = b]
    ELSE decoder_push(d, b)

\* for (auto b : in) step(b, wr): the first half of the span, then the rest.
RECURSIVE decoder_sink(_, _)
decoder_sink(d, in) ==
    IF in = <<>> THEN d
    ELSE IF Len(in) = 1 THEN decoder_step(d, in[1])
    ELSE LET h == Len(in) \div 2
             d1 == decoder_sink(d, SubSeq(in, 1, h))
         IN IF d1.oob \in BOOLEAN THEN decoder_sink(d1, SubSeq(in, h + 1, Len(in))) ELSE d1

-----------------------------------------------------------------------------
(* The callers: the payloads and wires the library is tried on.            *)

PayloadBytes == {0, 1, 255}

\* Every payload of at most MaxLen bytes.
ShortPayloads == UNION {[1..n -> PayloadBytes] : n \in 0..MaxLen}

\* A run of n nonzero bytes going through all the values 1..255.
RunByte(i) == ((i - 1) % 255) + 1
Run(n) == [i \in 1..n |-> RunByte(i)]

\* Runs around one and two full blocks of 254 bytes, alone, after a zero or a
\* short block, and before a zero or a further block.
LongRuns == {253, 254, 255, 508, 509}
LongPayloads ==
    {pre \o Run(n) \o suf : pre \in {<<>>, <<0>>, <<7, 0>>}, n \in LongRuns,
                            suf \in {<<>>, <<0>>, <<0, 9>>}}
    \cup {[i \in 1..255 |-> 1]}

Payloads == ShortPayloads \cup LongPayloads

\* Hand-built wires: up to MaxBlocks blocks, each a code and code-1 nonzero bytes.
WireCodes == {1, 3, 255}
CodeSeqs == UNION {[1..n -> WireCodes] : n \in 0..MaxBlocks}

DataByte(k, j) == ((j + 100 * k) % 255) + 1
Block(cs, k) == <<cs[k]>> \o [j \in 1..(cs[k] - 1) |-> DataByte(k, j)]

RECURSIVE BlocksFrom(_, _)
BlocksFrom(cs, k) == IF k > Len(cs) THEN <<>> ELSE Block(cs, k) \o BlocksFrom(cs, k + 1)
FrameOf(cs) == BlocksFrom(cs, 1)

\* Where a hand-built wire is cut: anywhere in its last block (a cut in an
\* earlier block is a cut of a shorter wire).
Cuts(cs) == IF cs = <<>> THEN {0}
            ELSE (Len(FrameOf(cs)) - cs[Len(cs)] + 1) .. Len(FrameOf(cs))

\* The first n bytes of the wire, followed by the delimiter or not.
Input(n, delim) == SubSeq(wire, 1, n) \o (IF delim THEN <<0>> ELSE <<>>)

\* What may follow the delimiter in the input of a bulk decoder: a code
\* without its data, another delimiter, a whole block, a full block cut.
Trailers == {<<5>>, <<0>>, <<3, 9, 8>>, <<255, 1>>}

\* Output capacities tried around a size r.
Around(r) == {c \in {0, 1, r - 1, r, r + 1} : c >= 0}

\* Output capacities tried for an encoding of r bytes: around r, and inside it.
EncodeCaps(r) == Around(r) \cup {2, r \div 2}

NoCall == [fn |-> "none"]

-----------------------------------------------------------------------------
(* The state after construction.                                           *)

Fresh ==
    /\ encoded = NoCall
    /\ decoded = NoCall
    /\ encoder = encoder_new
    /\ enc_pos = 0
    /\ decoder = decoder_new
    /\ dec_pos = 0
    /\ enc_twin = encoder_new
    /\ dec_twin = decoder_new
    /\ steps = 0

Init ==
    /\ payload \in Payloads
    /\ codes = <<>>
    /\ wire = <<>>
    /\ pc = "idle"
    /\ Fresh

InitWire ==
    /\ payload = <<>>
    /\ codes \in CodeSeqs
    /\ wire = FrameOf(codes)
    /\ pc = "wire"
    /\ Fresh

-----------------------------------------------------------------------------
(* Bulk calls on a payload.                                                *)

\* cobs_encode(payload, cb); the callback appends to the wire.
EncodeCb ==
    /\ pc = "idle"
    /\ encoded' = cobs_encode_cb(payload)
    /\ wire' = Flatten(encoded'.calls)
    /\ pc' = "encoded"
    /\ UNCHANGED <<payload, codes, decoded, encoder, enc_pos, decoder, dec_pos, enc_twin, dec_twin, steps>>

\* cobs_encode(payload, out) with out of a capacity around the measured size;
\* the wire is the returned number of bytes of out when out can hold them.
EncodeBuf ==
    /\ pc = "idle"
    /\ \E cap \in EncodeCaps(cobs_encode_buf(payload, 0).ret) :
         /\ encoded' = cobs_encode_buf(payload, cap)
         /\ IF encoded'.ret <= cap
            THEN wire' = SubSeq(encoded'.out, 1, encoded'.ret) /\ pc' = "encoded"
            ELSE wire' = encoded'.out /\ pc' = "truncated"
    /\ UNCHANGED <<payload, codes, decoded, encoder, enc_pos, decoder, dec_pos, enc_twin, dec_twin, steps>>

\* The caller ends the frame with the delimiter.
Delimit ==
    /\ pc = "encoded"
    /\ wire' = Append(wire, 0)
    /\ pc' = "framed"
    /\ UNCHANGED <<payload, codes, encoded, decoded, encoder, enc_pos, decoder, dec_pos, enc_twin, dec_twin, steps>>

\* cobs_decode(wire, cb)
DecodeCb ==
    /\ pc \in {"encoded", "framed"}
    /\ decoded' = cobs_decode_cb(wire)
    /\ pc' = "decoded"
    /\ UNCHANGED <<payload, codes, wire, encoded, encoder, enc_pos, decoder, dec_pos, enc_twin, dec_twin, steps>>

\* cobs_decode(wire, out)
DecodeBuf ==
    /\ pc \in {"encoded", "framed"}
    /\ \E cap \in Around(Len(payload)) :
         decoded' = cobs_decode_buf(wire, cap)
    /\ pc' = "decoded"
    /\ UNCHANGED <<payload, codes, wire, encoded, encoder, enc_pos, decoder, dec_pos, enc_twin, dec_twin, steps>>

-----------------------------------------------------------------------------
(* Streaming calls.                                                        *)

\* encoder.sink(span, cb) with the next n bytes of the payload.
EncoderSink ==
    /\ pc \in {"idle", "encoding"}
    /\ \E n \in 1..MaxChunk :
         /\ enc_pos + n <= Len(payload)
         /\ encoder' = encoder_sink(encoder, SubSeq(payload, enc_pos + 1, enc_pos + n))
         /\ enc_pos' = enc_pos + n
    /\ pc' = "encoding"
    /\ UNCHANGED <<payload, codes, wire, encoded, decoded, decoder, dec_pos, enc_twin, dec_twin, steps>>

\* encoder.stop(cb) once the payload is in; what the callback got is the wire.
EncoderStop ==
    /\ pc \in {"idle", "encoding"}
    /\ enc_pos = Len(payload)
    /\ encoder' = encoder_stop(encoder)
    /\ wire' = Flatten(encoder'.calls)
    /\ pc' = "sent"
    /\ UNCHANGED <<payload, codes, encoded, decoded, enc_pos, decoder, dec_pos, enc_twin, dec_twin, steps>>

\* decoder.sink(span, cb) with the next n bytes of the wire.
DecoderSink ==
    /\ pc \in {"sent", "wire", "receiving"}
    /\ \E n \in 1..MaxChunk :
         /\ dec_pos + n <= Len(wire)
         /\ decoder' = decoder_sink(decoder, SubSeq(wire, dec_pos + 1, dec_pos + n))
         /\ dec_pos' = dec_pos + n
    /\ pc' = "receiving"
    /\ UNCHANGED <<payload, codes, wire, encoded, decoded, encoder, enc_pos, enc_twin, dec_twin, steps>>

\* The delimiter arrives here: decoder.sink({0x00}, cb).
DecoderSinkDelimiter ==
    /\ pc \in {"wire", "receiving"}
    /\ decoder' = decoder_sink(decoder, <<0>>)
    /\ pc' = "terminated"
    /\ UNCHANGED <<payload, codes, wire, encoded, decoded, encoder, enc_pos, dec_pos, enc_twin, dec_twin, steps>>

\* The frame ends here without a delimiter: decoder.stop(cb).
DecoderStop ==
    /\ pc \in {"wire", "receiving"}
    /\ decoder' = decoder_stop(decoder)
    /\ pc' = "terminated"
    /\ UNCHANGED <<payload, codes, wire, encoded, decoded, encoder, enc_pos, dec_pos, enc_twin, dec_twin, steps>>

-----------------------------------------------------------------------------
(* Bulk calls on a hand-built wire, cut anywhere in its last block.        *)

WireDecodeCb ==
    /\ pc = "wire"
    /\ \E n \in Cuts(codes), delim \in BOOLEAN :
         decoded' = cobs_decode_cb(Input(n, delim))
    /\ pc' = "decoded"
    /\ UNCHANGED <<payload, codes, wire, encoded, encoder, enc_pos, decoder, dec_pos, enc_twin, dec_twin, steps>>

WireDecodeBuf ==
    /\ pc = "wire"
    /\ \E n \in Cuts(codes), delim \in BOOLEAN, cap \in {0, 1, Len(wire)} :
         decoded' = cobs_decode_buf(Input(n, delim), cap)
    /\ pc' = "decoded"
    /\ UNCHANGED <<payload, codes, wire, encoded, encoder, enc_pos, decoder, dec_pos, enc_twin, dec_twin, steps>>

\* The input goes on after the delimiter of the whole wire.
WireDecodeCbPast ==
    /\ pc = "wire"
    /\ \E g \in Trailers :
         decoded' = cobs_decode_cb(Append(wire, 0) \o g)
    /\ pc' = "decoded"
    /\ UNCHANGED <<payload, codes, wire, encoded, encoder, enc_pos, decoder, dec_pos, enc_twin, dec_twin, steps>>

WireDecodeBufPast ==
    /\ pc = "wire"
    /\ \E g \in Trailers, cap \in {0, 1, Len(wire)} :
         decoded' = cobs_decode_buf(Append(wire, 0) \o g, cap)
    /\ pc' = "decoded"
    /\ UNCHANGED <<payload, codes, wire, encoded, encoder, enc_pos, decoder, dec_pos, enc_twin, dec_twin, steps>>

-----------------------------------------------------------------------------
(* The specifications: a payload through the encoders and back, and a      *)
(* hand-built wire through the decoders.                                   *)

Next ==
    \/ EncodeCb
    \/ EncodeBuf
    \/ Delimit
    \/ DecodeCb
    \/ DecodeBuf
    \/ EncoderSink
    \/ EncoderStop
    \/ DecoderSink

Spec == Init /\ [][Next]_vars

NextWire ==
    \/ WireDecodeCb
    \/ WireDecodeBuf
    \/ WireDecodeCbPast
    \/ WireDecodeBufPast
    \/ DecoderSink
    \/ DecoderSinkDelimiter
    \/ DecoderStop

SpecWire == InitWire /\ [][NextWire]_vars

-----------------------------------------------------------------------------
(* Sessions: one streaming object used for frame after frame, on any bytes, *)
(* next to a twin that is constructed anew whenever a frame ends and is     *)
(* given the same calls.  The callback of the twin goes on with the same    *)
(* log, so that the two logs compare over the whole session.                *)

\* A freshly constructed object taking over the log of t.
encoder_again(t) == [encoder_new EXCEPT !.calls = t.calls, !.oob = t.oob, !.wrap = t.wrap]
decoder_again(t) == [decoder_new EXCEPT !.calls = t.calls, !.oob = t.oob, !.wrap = t.wrap]

\* sink() on the twin decoder: a 0x00 ends its frame, and the bytes after it
\* go to a new object.
twin_decoder_step(t, b) ==
    IF b = 0 THEN decoder_again(decoder_step(t, b)) ELSE decoder_step(t, b)

RECURSIVE twin_decoder_sink(_, _)
twin_decoder_sink(t, in) ==
    IF in = <<>> THEN t
    ELSE IF Len(in) = 1 THEN twin_decoder_step(t, in[1])
    ELSE LET h == Len(in) \div 2
             t1 == twin_decoder_sink(t, SubSeq(in, 1, h))
         IN IF t1.oob \in BOOLEAN THEN twin_decoder_sink(t1, SubSeq(in, h + 1, Len(in)))
            ELSE t1

\* The spans given to encoder.sink(): zeros, short runs, and runs that fill
\* a block or all but one byte of it.
EncoderSpans == {<<0>>, <<1>>, <<2, 0, 3>>, Run(253), Run(254)}

\* The spans given to decoder.sink(): the delimiter, the codes 1, 0xFE and
\* 0xFF, a block cut by a delimiter, and 254 bytes on end.
DecoderSpans == {<<0>>, <<1>>, <<254>>, <<255>>, <<3, 7, 0, 2>>, Run(254)}

InitSession ==
    /\ payload = <<>>
    /\ codes = <<>>
    /\ wire = <<>>
    /\ pc \in {"enc_idle", "dec_idle"}
    /\ Fresh

SessionEncoderSink ==
    /\ pc \in {"enc_idle", "enc_frame"}
    /\ steps < MaxSteps
    /\ \E span \in EncoderSpans :
         /\ encoder' = encoder_sink(encoder, span)
         /\ enc_twin' = encoder_sink(enc_twin, span)
    /\ pc' = "enc_frame"
    /\ steps' = steps + 1
    /\ UNCHANGED <<payload, codes, wire, encoded, decoded, enc_pos, decoder, dec_pos, dec_twin>>

SessionEncoderStop ==
    /\ pc \in {"enc_idle", "enc_frame"}
    /\ steps < MaxSteps
    /\ encoder' = encoder_stop(encoder)
    /\ enc_twin' = encoder_again(encoder_stop(enc_twin))
    /\ pc' = "enc_idle"
    /\ steps' = steps + 1
    /\ UNCHANGED <<payload, codes, wire, encoded, decoded, enc_pos, decoder, dec_pos, dec_twin>>

SessionEncoderReset ==
    /\ pc \in {"enc_idle", "enc_frame"}
    /\ steps < MaxSteps
    /\ encoder' = encoder_reset(encoder)
    /\ enc_twin' = encoder_again(enc_twin)
    /\ pc' = "enc_idle"
    /\ steps' = steps + 1
    /\ UNCHANGED <<payload, codes, wire, encoded, decoded, enc_pos, decoder, dec_pos, dec_twin>>

SessionDecoderSink ==
    /\ pc \in {"dec_idle", "dec_frame"}
    /\ steps < MaxSteps
    /\ \E span \in DecoderSpans :
         /\ decoder' = decoder_sink(decoder, span)
         /\ dec_twin' = twin_decoder_sink(dec_twin, span)
         /\ pc' = IF span[Len(span)] = 0 THEN "dec_idle" ELSE "dec_frame"
    /\ steps' = steps + 1
    /\ UNCHANGED <<payload, codes, wire, encoded, decoded, encoder, enc_pos, dec_pos, enc_twin>>

SessionDecoderStop ==
    /\ pc \in {"dec_idle", "dec_frame"}
    /\ steps < MaxSteps
    /\ decoder' = decoder_stop(decoder)
    /\ dec_twin' = decoder_again(decoder_stop(dec_twin))
    /\ pc' = "dec_idle"
    /\ steps' = steps + 1
    /\ UNCHANGED <<payload, codes, wire, encoded, decoded, encoder, enc_pos, dec_pos, enc_twin>>

SessionDecoderReset ==
    /\ pc \in {"dec_idle", "dec_frame"}
    /\ steps < MaxSteps
    /\ decoder' = decoder_reset(decoder)
    /\ dec_twin' = decoder_again(dec_twin)
    /\ pc' = "dec_idle"
    /\ steps' = steps + 1
    /\ UNCHANGED <<payload, codes, wire, encoded, decoded, encoder, enc_pos, dec_pos, enc_twin>>

NextSession ==
    \/ SessionEncoderSink
    \/ SessionEncoderStop
    \/ SessionEncoderReset
    \/ SessionDecoderSink
    \/ SessionDecoderStop
    \/ SessionDecoderReset

SpecSession == InitSession /\ [][NextSession]_vars

-----------------------------------------------------------------------------
(* What the properties below speak of.                                     *)

Last(q) == q[Len(q)]

\* The bytes a decoder callback was given, over all its invocations.
CallData(calls) == Flatten([i \in 1..Len(calls) |-> calls[i].data])

\* The bytes cobs_encode(payload, cb) gives its callback.
BulkEncoding == Flatten(cobs_encode_cb(payload).calls)

HasZero(q) == \E i \in 1..Len(q) : q[i] = 0
Zeros(q) == Cardinality({i \in 1..Len(q) : q[i] = 0})

\* The payload holds a zero and a run of at least 254 nonzero bytes.
LongWithZero == Len(payload) >= 255 /\ HasZero(payload)

\* A bulk decode of a hand-built wire got the wire up to a cut that leaves
\* the last block incomplete, and no delimiter.
Truncated(in) ==
    /\ Len(in) < Len(wire)
    /\ in = SubSeq(wire, 1, Len(in))

-----------------------------------------------------------------------------
(* C1: Bulk round trip.  Whenever a bulk decoder has been run on the bulk  *)
(* encoding of the payload (made by either encoder, with or without the    *)
(* delimiter appended), it returns the payload's length; the callable      *)
(* variant has handed over exactly the payload, with no error report, and  *)
(* the buffer variant has written exactly the payload when its buffer can  *)
(* hold it.                                                                *)
C1_BulkRoundTrip ==
    pc = "decoded" =>
        /\ decoded.ret = Len(payload)
        /\ decoded.fn = "cb" =>
             /\ CallData(decoded.calls) = payload
             /\ \A i \in 1..Len(decoded.calls) :
                  ~decoded.calls[i].null /\ decoded.calls[i].left = 0
        /\ (decoded.fn = "buf" /\ decoded.cap >= Len(payload)) =>
             SubSeq(decoded.out, 1, Len(payload)) = payload

\* A payload with a zero and a run of 254 or more went through the buffer
\* encoder, got its delimiter and came back through the buffer decoder.
C1_Witness ==
    /\ pc = "decoded"
    /\ LongWithZero
    /\ encoded.fn = "buf"
    /\ decoded.fn = "buf"
    /\ decoded.cap >= Len(payload)
    /\ Last(wire) = 0
    /\ decoded.ret = Len(payload)

-----------------------------------------------------------------------------
(* C2: Streaming round trip.  Once the decoder has been given every byte   *)
(* the streaming encoder emitted for the payload (stop() included), in     *)
(* spans of any size, its callback has received exactly the payload, the   *)
(* last invocation carries left = 0, and the decoder is back at code = 0   *)
(* and size = 0.                                                           *)
C2_StreamRoundTrip ==
    (pc = "receiving" /\ dec_pos = Len(wire)) =>
        /\ CallData(decoder.calls) = payload
        /\ Last(decoder.calls).left = 0
        /\ decoder.code = 0
        /\ decoder.size = 0

C2_Witness ==
    /\ pc = "receiving"
    /\ dec_pos = Len(wire)
    /\ LongWithZero
    /\ CallData(decoder.calls) = payload

-----------------------------------------------------------------------------
(* C3: Streaming equivalence.  After stop(), whatever the spans given to   *)
(* sink() were, the bytes the streaming encoder's callback has received    *)
(* are the bytes of the bulk callable encoder for the same payload,        *)
(* followed by one 0x00.                                                   *)
C3_StreamEqualsBulk ==
    pc = "sent" => Flatten(encoder.calls) = Append(BulkEncoding, 0)

\* The payload ends in a nonzero run of exactly 254 bytes.
C3_Witness ==
    /\ pc = "sent"
    /\ Len(payload) = 255
    /\ payload[1] = 0
    /\ ~HasZero(Tail(payload))
    /\ Len(Flatten(encoder.calls)) = 257

-----------------------------------------------------------------------------
(* C4: Measurement consistency.  The value returned by the buffer encoder  *)
(* is, for every capacity tried (0, too small, exact, larger), the total   *)
(* returned by the callable encoder, which is the number of bytes of the   *)
(* full encoding.                                                          *)
C4_MeasurementConsistent ==
    encoded.fn = "buf" =>
        /\ encoded.ret = cobs_encode_cb(payload).ret
        /\ encoded.ret = Len(BulkEncoding)

\* A buffer of capacity 0 and a payload with a run of 254 or more.
C4_Witness ==
    /\ pc = "truncated"
    /\ encoded.fn = "buf"
    /\ encoded.cap = 0
    /\ Len(payload) >= 254
    /\ encoded.ret > Len(payload)

-----------------------------------------------------------------------------
(* C5: Bulk malformed detection.  Both bulk decoders return 0 for an input *)
(* without delimiter whose last block lacks data bytes.                    *)
C5_TruncatedReturnsZero ==
    (pc = "decoded" /\ Truncated(decoded.in)) => decoded.ret = 0

-----------------------------------------------------------------------------
(* The block structure of a hand-built wire, from the codes it was built   *)
(* of.                                                                     *)

\* The offset just past the block that holds the byte at offset pos - 1,
\* walking the blocks from block k, which starts at offset e.
RECURSIVE BlockEnd(_, _, _, _)
BlockEnd(cs, k, e, pos) ==
    IF k > Len(cs) THEN e
    ELSE IF e + cs[k] >= pos THEN e + cs[k]
    ELSE BlockEnd(cs, k + 1, e + cs[k], pos)

\* The number of data bytes the block in progress still lacks once the
\* first pos bytes of the wire are in (0 before the first byte).
Lacking(pos) == IF pos = 0 THEN 0 ELSE BlockEnd(codes, 1, 0, pos) - pos

\* The number of bytes the blocks cs decode to: their data, and one zero
\* before every block that follows a block of a code other than 0xFF.
RECURSIVE DecodedLenFrom(_, _)
DecodedLenFrom(cs, k) ==
    IF k > Len(cs) THEN 0
    ELSE (cs[k] - 1) + (IF k > 1 /\ cs[k - 1] # 255 THEN 1 ELSE 0) + DecodedLenFrom(cs, k + 1)
DecodedLen(cs) == DecodedLenFrom(cs, 1)

\* A bulk decode got the whole wire, with or without its delimiter.
WellFormed(in) == in = wire \/ in = Append(wire, 0)

\* A bulk decode got a 0x00 where the last block still lacked data bytes.
PrematureDelimiter(in) ==
    /\ Len(in) >= 1
    /\ Len(in) - 1 < Len(wire)
    /\ in = Append(SubSeq(wire, 1, Len(in) - 1), 0)

-----------------------------------------------------------------------------
(* C6: Streaming malformed detection.  The step that ends a frame in the   *)
(* streaming decoder (a 0x00 through sink(), or stop()) gives the callback *)
(* left = code - size - 1 of the state it ends (0 when code = 0); this is  *)
(* the number of data bytes the block in progress lacks, it is 0 exactly   *)
(* when no block was started or the block is complete, and it lies within  *)
(* 0..254.                                                                 *)
C6_LeftIsLackingCount ==
    [][pc' = "terminated" =>
         LET c == Last(decoder'.calls)
         IN /\ Len(decoder'.calls) = Len(decoder.calls) + 1
            /\ c.left = (IF decoder.code = 0 THEN 0 ELSE decoder.code - decoder.size - 1)
            /\ c.left = Lacking(dec_pos)
            /\ c.left \in 0..254
            /\ (c.left = 0) <=> (decoder.code = 0 \/ decoder.size = decoder.code - 1)
            /\ (c.left > 0) <=> (decoder.code # 0 /\ decoder.size < decoder.code - 1)]_vars

\* A frame ended right after a full block: code 0xFF with its 254 bytes in.
C6_Witness ==
    /\ pc = "terminated"
    /\ codes # <<>>
    /\ Last(codes) = 255
    /\ dec_pos = Len(wire)
    /\ Last(decoder.calls).size = 254
    /\ Last(decoder.calls).left = 0

-----------------------------------------------------------------------------
(* C7, as claimed: the buffer decoder returns 0 if and only if the input   *)
(* is malformed, and the decoded size of every well-formed frame.  Stated  *)
(* here for the inputs of at least one block that are a whole frame or a   *)
(* frame cut short, which leaves the inputs of C8 aside.                   *)
C7_ZeroIffMalformed ==
    (/\ pc = "decoded"
     /\ decoded.fn = "buf"
     /\ codes # <<>>
     /\ WellFormed(decoded.in) \/ Truncated(decoded.in)) =>
        /\ (decoded.ret = 0) <=> ~WellFormed(decoded.in)
        /\ WellFormed(decoded.in) => decoded.ret = DecodedLen(codes)

(* C7, amended: the buffer decoder returns 0 for every input that ends     *)
(* while its last block lacks data bytes, and for every well-formed frame  *)
(* (with or without delimiter) the decoded size, whatever the capacity of  *)
(* the output; that size is 0 for the frame of the empty payload, so a     *)
(* return of 0 alone does not tell a malformed input.                      *)
C7_ZeroIfTruncated ==
    (pc = "decoded" /\ decoded.fn = "buf") =>
        /\ Truncated(decoded.in) => decoded.ret = 0
        /\ WellFormed(decoded.in) => decoded.ret = DecodedLen(codes)
        /\ (WellFormed(decoded.in) /\ DecodedLen(codes) = 0) => decoded.ret = 0

\* A well-formed frame of 254 bytes or more decoded into a buffer of
\* capacity 0.
C7_Witness ==
    /\ pc = "decoded"
    /\ decoded.fn = "buf"
    /\ decoded.cap = 0
    /\ WellFormed(decoded.in)
    /\ decoded.ret >= 254
    /\ decoded.ret = DecodedLen(codes)

-----------------------------------------------------------------------------
(* C8: Premature delimiter.  A 0x00 that arrives while a block lacks data  *)
(* bytes makes every decoder report a malformed frame: the streaming       *)
(* decoder hands over what it buffered with left > 0, and both bulk        *)
(* decoders return 0 and do not give the 0x00 out as data.                 *)
C8_PrematureDelimiterRejected ==
    /\ (pc = "terminated" /\ Lacking(dec_pos) > 0) =>
          /\ Last(decoder.calls).left > 0
          /\ ~HasZero(CallData(decoder.calls))
    /\ (pc = "decoded" /\ PrematureDelimiter(decoded.in)) =>
          /\ decoded.ret = 0
          /\ ~HasZero(CallData(decoded.calls))
          /\ \A i \in 1..Len(decoded.out) : decoded.out[i] # 0

-----------------------------------------------------------------------------
(* The block structure of an encoder's output.                             *)

\* The codes of the blocks of w from index k on; a 0 ends the list where w
\* has a zero code or ends before a block's data does.
RECURSIVE CodesFrom(_, _)
CodesFrom(w, k) ==
    IF k > Len(w) THEN <<>>
    ELSE IF w[k] = 0 \/ k + w[k] - 1 > Len(w) THEN <<0>>
    ELSE <<w[k]>> \o CodesFrom(w, k + w[k])
BlockCodes(w) == CodesFrom(w, 1)

\* The data bytes of these blocks, in order.
RECURSIVE DataFrom(_, _)
DataFrom(w, k) ==
    IF k > Len(w) \/ w[k] = 0 \/ k + w[k] - 1 > Len(w) THEN <<>>
    ELSE SubSeq(w, k + 1, k + w[k] - 1) \o DataFrom(w, k + w[k])

IsNonZero(b) == b # 0

\* The codes of the encoding of n >= 1 nonzero bytes: full blocks, then the
\* rest.
ExpectedCodes(n) ==
    LET full == (n - 1) \div 254
    IN [i \in 1..full |-> 255] \o <<n - 254 * full + 1>>

\* w is the block sequence of the payload.
BlockLaw(w) ==
    LET cs == BlockCodes(w)
    IN /\ Len(cs) >= 1
       /\ \A k \in 1..Len(cs) : cs[k] \in 1..255
       /\ DataFrom(w, 1) = SelectSeq(payload, IsNonZero)
       /\ Cardinality({k \in 1..(Len(cs) - 1) : cs[k] # 255}) = Zeros(payload)
       /\ (Len(payload) >= 1 /\ ~HasZero(payload)) => cs = ExpectedCodes(Len(payload))

-----------------------------------------------------------------------------
(* C9: Zero-freedom and delimiter placement.  No byte the bulk callable    *)
(* encoder hands over is 0x00; every byte of the buffer encoder's output   *)
(* below the returned size (and the capacity) is written and nonzero;      *)
(* before stop() the streaming encoder has emitted no 0x00, and after      *)
(* stop() exactly one, the last byte of the chunk stop() emitted.          *)
C9_ZeroFreedom ==
    /\ encoded.fn = "cb" => ~HasZero(Flatten(encoded.calls))
    /\ encoded.fn = "buf" =>
          \A i \in 1..Min(encoded.cap, encoded.ret) : encoded.out[i] \in 1..255
    /\ pc = "encoding" => ~HasZero(Flatten(encoder.calls))
    /\ pc = "sent" =>
          /\ Zeros(Flatten(encoder.calls)) = 1
          /\ Last(Last(encoder.calls)) = 0

\* A streamed frame of a payload with zeros and a run of 254 or more.
C9_Witness ==
    /\ pc = "sent"
    /\ LongWithZero
    /\ Zeros(payload) >= 2
    /\ Last(wire) = 0

-----------------------------------------------------------------------------
(* C10: Max block law.  The output of every encoder path (bulk callable,   *)
(* bulk buffer with room for it, streaming without its delimiter) is a     *)
(* sequence of blocks, each a code in 1..255 and code-1 data bytes; the    *)
(* data is the payload without its zeros; the blocks that are not last and *)
(* whose code is not 0xFF are as many as the payload's zeros (no block     *)
(* stands for a zero the payload does not have); n nonzero bytes alone     *)
(* give (n-1) div 254 blocks of code 0xFF and one block with the rest.     *)
C10_MaxBlockLaw ==
    /\ (pc \in {"encoded", "truncated"} /\ encoded.fn = "cb") =>
          BlockLaw(Flatten(encoded.calls))
    /\ (pc = "encoded" /\ encoded.fn = "buf") =>
          BlockLaw(SubSeq(encoded.out, 1, encoded.ret))
    /\ pc = "sent" =>
          BlockLaw(SubSeq(Flatten(encoder.calls), 1, Len(Flatten(encoder.calls)) - 1))

\* 255 bytes of 0x01 through the buffer encoder: a 0xFF block and a 0x02 block.
C10_Witness ==
    /\ pc = "encoded"
    /\ encoded.fn = "buf"
    /\ payload = [i \in 1..255 |-> 1]
    /\ BlockCodes(wire) = <<255, 2>>

-----------------------------------------------------------------------------
(* C11: Silent truncation writes a prefix.  Whatever the capacity of the   *)
(* output, the buffer encoder leaves in its first min(capacity, returned   *)
(* size) bytes the first bytes of the full encoding the callable encoder   *)
(* produces, the code byte of a block whose data did not all fit included. *)
C11_TruncationWritesPrefix ==
    encoded.fn = "buf" =>
        LET n == Min(encoded.cap, encoded.ret)
        IN SubSeq(encoded.out, 1, n) = SubSeq(BulkEncoding, 1, n)

\* The buffer ended inside the data of a block that is not the first, and
\* that block's code byte is in the buffer.
C11_Witness ==
    /\ pc = "truncated"
    /\ encoded.fn = "buf"
    /\ LET cs == BlockCodes(BulkEncoding)
       IN /\ Len(cs) >= 2
          /\ encoded.cap > cs[1] + 1
          /\ encoded.cap < cs[1] + cs[2]
          /\ encoded.out[cs[1] + 1] = cs[2]

-----------------------------------------------------------------------------
(* C12: Error report of the callable bulk decoder.  On an input without    *)
(* delimiter whose last block lacks data bytes, the callback is invoked    *)
(* exactly once with a null pointer, as the last invocation, with size 0   *)
(* and left equal to the number of data bytes the last block lacks; on a   *)
(* well-formed input no invocation has a null pointer or a nonzero left.   *)
C12_NullReportOnTruncated ==
    (pc = "decoded" /\ decoded.fn = "cb") =>
        /\ Truncated(decoded.in) =>
              /\ Cardinality({i \in 1..Len(decoded.calls) : decoded.calls[i].null}) = 1
              /\ Last(decoded.calls).null
              /\ Last(decoded.calls).size = 0
              /\ Last(decoded.calls).left = Lacking(Len(decoded.in))
        /\ WellFormed(decoded.in) =>
              \A i \in 1..Len(decoded.calls) :
                  ~decoded.calls[i].null /\ decoded.calls[i].left = 0

-----------------------------------------------------------------------------
(* C13: Decoder reuse after any frame.  After every termination of the     *)
(* streaming decoder (a 0x00 through sink(), stop() or reset()), of a      *)
(* well-formed frame or a malformed one, code and size are 0, and whatever *)
(* input follows, the callback is invoked as the callback of a freshly     *)
(* constructed decoder is on the same input.                               *)
C13_DecoderReusable ==
    pc \in {"dec_idle", "dec_frame"} =>
        /\ pc = "dec_idle" => (decoder.code = 0 /\ decoder.size = 0)
        /\ decoder.calls = dec_twin.calls
        /\ decoder.code = dec_twin.code
        /\ decoder.size = dec_twin.size

\* A malformed frame was ended, the decoder has handed over data of a later
\* frame, and its buffer still holds bytes a new decoder's does not.
C13_Witness ==
    /\ pc \in {"dec_idle", "dec_frame"}
    /\ decoder.buf # dec_twin.buf
    /\ \E i, j \in 1..Len(decoder.calls) :
          /\ i < j
          /\ decoder.calls[i].left > 0
          /\ decoder.calls[j].size > 0

-----------------------------------------------------------------------------
(* C14: Encoder reuse across frames.  After stop() or reset() the pending  *)
(* count of the streaming encoder is 0, and over any sequence of frames    *)
(* the callback receives for each frame what the callback of a freshly     *)
(* constructed encoder receives for that frame's payload, whatever earlier *)
(* frames left in the buffer.                                              *)
C14_EncoderReusable ==
    pc \in {"enc_idle", "enc_frame"} =>
        /\ pc = "enc_idle" => encoder.buf[0] = 0
        /\ encoder.calls = enc_twin.calls
        /\ encoder.buf[0] = enc_twin.buf[0]

\* A frame was ended by stop(), a later frame has been ended by stop() too,
\* and the buffer still holds bytes a new encoder's does not.
C14_Witness ==
    /\ pc = "enc_idle"
    /\ Len(encoder.calls) >= 2
    /\ Last(Last(encoder.calls)) = 0
    /\ \E i \in 1..(Len(encoder.calls) - 1) :
          /\ Last(encoder.calls[i]) = 0
          /\ Len(encoder.calls[i]) > Len(Last(encoder.calls))
    /\ \E k \in 1..255 : encoder.buf[k] # enc_twin.buf[k]

-----------------------------------------------------------------------------
(* What a hand-built wire stands for.                                      *)

\* The data of the blocks cs from block k on, with one zero before the data
\* of every block that follows a block of a code other than 0xFF.
RECURSIVE ImpliedFrom(_, _)
ImpliedFrom(cs, k) ==
    IF k > Len(cs) THEN <<>>
    ELSE (IF k > 1 /\ cs[k - 1] # 255 THEN <<0>> ELSE <<>>)
         \o [j \in 1..(cs[k] - 1) |-> DataByte(k, j)]
         \o ImpliedFrom(cs, k + 1)
WithImpliedZeros(cs) == ImpliedFrom(cs, 1)

-----------------------------------------------------------------------------
(* C15: Implied-zero rule on every well-formed frame.  For every sequence  *)
(* of complete blocks, with or without the trailing 0x00, the callable     *)
(* bulk decoder, the buffer bulk decoder and the streaming decoder give    *)
(* the same bytes: the blocks' data in order, with exactly one 0x00 before *)
(* the data of each block that is not the first and follows a block of a   *)
(* code other than 0xFF, and none before the first or after the last.      *)
C15_ImpliedZeroRule ==
    /\ (pc = "decoded" /\ WellFormed(decoded.in)) =>
          /\ decoded.ret = Len(WithImpliedZeros(codes))
          /\ decoded.fn = "cb" => CallData(decoded.calls) = WithImpliedZeros(codes)
          /\ (decoded.fn = "buf" /\ decoded.cap >= decoded.ret) =>
                SubSeq(decoded.out, 1, decoded.ret) = WithImpliedZeros(codes)
    /\ (pc = "terminated" /\ dec_pos = Len(wire)) =>
          CallData(decoder.calls) = WithImpliedZeros(codes)

\* A block of two bytes and then a full block, taken by the callable
\* decoder: the one zero of the output is its third byte.
C15_Witness ==
    /\ pc = "decoded"
    /\ decoded.fn = "cb"
    /\ codes = <<3, 255>>
    /\ WellFormed(decoded.in)
    /\ Len(CallData(decoded.calls)) = 257
    /\ CallData(decoded.calls)[3] = 0
    /\ Zeros(CallData(decoded.calls)) = 1

-----------------------------------------------------------------------------
(* C16: Callback protocol of the encoders.  The callable bulk encoder      *)
(* invokes the callback twice per block, with the one code byte and then   *)
(* with the block's code-1 data bytes (no bytes for an empty block), in    *)
(* the order of the payload, and returns the sum of the sizes passed.  The *)
(* streaming encoder invokes the callback once per flushed block, with the *)
(* code byte and the data together, and once in stop(), with the last      *)
(* block and the delimiter.                                                *)
C16_CallbackProtocol ==
    /\ encoded.fn = "cb" =>
          LET cs == encoded.calls
              blocks == BlockCodes(BulkEncoding)
          IN /\ Len(cs) = 2 * Len(blocks)
             /\ \A k \in 1..Len(blocks) :
                   /\ cs[2 * k - 1] = <<blocks[k]>>
                   /\ Len(cs[2 * k]) = blocks[k] - 1
             /\ Flatten([k \in 1..Len(blocks) |-> cs[2 * k]]) = SelectSeq(payload, IsNonZero)
             /\ encoded.ret = Len(Flatten(cs))
    /\ pc = "encoding" =>
          \A k \in 1..Len(encoder.calls) :
              /\ Len(encoder.calls[k]) >= 1
              /\ encoder.calls[k][1] = Len(encoder.calls[k])
    /\ pc = "sent" =>
          LET cs == encoder.calls
              blocks == BlockCodes(BulkEncoding)
          IN /\ Len(cs) = Len(blocks)
             /\ \A k \in 1..(Len(cs) - 1) :
                   /\ cs[k][1] = blocks[k]
                   /\ Len(cs[k]) = blocks[k]
             /\ Last(cs)[1] = Last(blocks)
             /\ Len(Last(cs)) = Last(blocks) + 1
             /\ Last(Last(cs)) = 0

\* A zero, a run of 254 bytes and a zero: an empty block, a full block and
\* two empty blocks, in eight invocations.
C16_Witness ==
    /\ pc = "encoded"
    /\ encoded.fn = "cb"
    /\ Len(encoded.calls) = 8
    /\ encoded.calls[1] = <<1>>
    /\ encoded.calls[2] = <<>>
    /\ encoded.calls[3] = <<255>>
    /\ Len(encoded.calls[4]) = 254
    /\ encoded.ret = 258

-----------------------------------------------------------------------------
(* C17: Bulk decode stops at the delimiter.  A 0x00 read where a code byte *)
(* is expected ends both bulk decoders successfully: for a wire of whole   *)
(* blocks followed by 0x00 and by any further bytes, the return value and  *)
(* the bytes handed over or written are those for the wire followed by     *)
(* 0x00 alone, which are the length and the bytes of what the blocks stand *)
(* for.                                                                    *)
PastDelimiter(in) ==
    /\ Len(in) > Len(wire) + 1
    /\ SubSeq(in, 1, Len(wire) + 1) = Append(wire, 0)

C17_StopsAtDelimiter ==
    (pc = "decoded" /\ PastDelimiter(decoded.in)) =>
        /\ decoded.ret = Len(WithImpliedZeros(codes))
        /\ decoded.fn = "cb" =>
              /\ decoded.ret = cobs_decode_cb(Append(wire, 0)).ret
              /\ decoded.calls = cobs_decode_cb(Append(wire, 0)).calls
              /\ CallData(decoded.calls) = WithImpliedZeros(codes)
        /\ decoded.fn = "buf" =>
              /\ decoded.ret = cobs_decode_buf(Append(wire, 0), decoded.cap).ret
              /\ decoded.out = cobs_decode_buf(Append(wire, 0), decoded.cap).out
              /\ \A i \in 1..Len(decoded.out) :
                    decoded.out[i] = (IF i <= decoded.ret THEN WithImpliedZeros(codes)[i]
                                      ELSE Unwritten)

\* Two blocks, the delimiter and a whole further block went to the buffer
\* decoder, whose buffer has room for more than the two blocks' bytes.
C17_Witness ==
    /\ pc = "decoded"
    /\ decoded.fn = "buf"
    /\ codes = <<3, 3>>
    /\ decoded.in = Append(wire, 0) \o <<3, 9, 8>>
    /\ decoded.cap = Len(wire)
    /\ decoded.ret = 5
    /\ decoded.out[6] = Unwritten

-----------------------------------------------------------------------------
(* C18: Bounded streaming state.  After any sequence of sink(), stop() and *)
(* reset() calls on any bytes, between calls the encoder's pending count   *)
(* is at most 254 and every store of the encoder went to an index of its   *)
(* 256-byte buffer; the decoder's size is at most 254 and, when code > 0,  *)
(* at most code - 1, and every store of the decoder went to an index of    *)
(* its 255-byte buffer; no increment of an 8-bit counter wrapped.          *)
C18_BoundedStreamingState ==
    /\ encoder.buf[0] <= 254
    /\ ~encoder.oob
    /\ ~encoder.wrap
    /\ decoder.size <= 254
    /\ decoder.code > 0 => decoder.size <= decoder.code - 1
    /\ ~decoder.oob
    /\ ~decoder.wrap

\* The decoder holds the 254 bytes of a full block, and an earlier frame of
\* the session was malformed.
C18_Witness ==
    /\ pc = "dec_frame"
    /\ decoder.code = 255
    /\ decoder.size = 254
    /\ \E i \in 1..Len(decoder.calls) : decoder.calls[i].left > 0

-----------------------------------------------------------------------------
(* C19: Write set of the buffer encoder.  Whatever the payload and the     *)
(* capacity, the buffer encoder changes only the bytes of out at indices   *)
(* below min(capacity, returned size): every byte at or above the returned *)
(* size is as it was before the call, also when the payload ends on a full *)
(* block of 254 bytes.                                                     *)
C19_WritesBelowReturnedSize ==
    encoded.fn = "buf" =>
        \A i \in 1..Len(encoded.out) :
            i > Min(encoded.cap, encoded.ret) => encoded.out[i] = Unwritten

=============================================================================
